---- MODULE Spec2Model ----
(***************************************************************************)
(* Model of .github/workflows/send-email.py: the __main__ block and        *)
(* send_discovery_email.  One action per statement (or group of            *)
(* statements) that can fail or that changes the observable state.  Every  *)
(* smtplib call either completes or raises an Exception; both outcomes are *)
(* explored.  print() calls are treated as steps that complete.            *)
(***************************************************************************)
EXTENDS Integers, Sequences, FiniteSets, TLC

(* ---------------- bounds of the explored inputs ---------------- *)
MaxArgc == 5
NumFiles == 2
NumEmails == 2
NumDates == 2
NumContents == 2

(* ---------------- program constants ---------------- *)
ExpectedArgc == 4
SSLPort == 465
StartTLSPort == 587
ExitOK == 0
ExitFail == 1
recipient == "yahalom.assets@gmail.com"

ReportFiles == {<<"reports", f>> : f \in 1..NumFiles}
Emails == 1..NumEmails
Dates == 1..NumDates
Contents == 1..NumContents
FileStates == {"missing", "readable", "unreadable"}

NoMsg == [parts |-> <<>>]

VARIABLES
    pc,            \* position of the single thread of control
    argc,          \* len(sys.argv)
    report_file,   \* sys.argv[1]
    sender_email,  \* sys.argv[2]
    file,          \* state of the report file on disk (environment)
    existsAtCheck, \* what os.path.exists returned: "unchecked" | "yes" | "no"
    msg,           \* the MIMEMultipart object
    msgCount,      \* number of MIMEMultipart objects constructed
    reads,         \* number of times the report file was opened
    attachFailed,  \* the except branch of the attachment block was taken
    server,        \* connection the local `server` is bound to (0: unbound)
    sock,          \* per connection: "none" | "open" | "closed"
    tls,           \* per connection: the channel is encrypted
    auth,          \* per connection: login completed
    connects,      \* per transport: number of constructor calls
    sent,          \* number of send_message calls that completed
    offered,       \* the messages handed to send_message, in order
    trace,         \* smtplib calls made so far, with their outcome
    result,        \* return value of send_discovery_email: "none"|"True"|"False"
    exitCode       \* process exit status, -1 while running

vars == <<pc, argc, report_file, sender_email, file, existsAtCheck, msg,
          msgCount, reads, attachFailed, server, sock, tls, auth, connects,
          sent, offered, trace, result, exitCode>>

netVars == <<server, sock, tls, auth, connects, sent, offered, trace>>
msgVars == <<msg, msgCount, reads, attachFailed>>
argVars == <<argc, report_file, sender_email>>

(* os.path.basename *)
basename(path) == path[2]

(* os.path.exists: true for a file that is there, readable or not *)
exists(f) == f # "missing"

(* datetime.now().strftime('%Y%m%d') and strftime('%Y-%m-%d') *)
SubjectDate(d) == <<"%Y%m%d", d>>
BodyDate(d) == <<"%Y-%m-%d", d>>

Event(a, s, ok) == [att |-> a, step |-> s, ok |-> ok]

Init ==
    /\ pc = "main"
    /\ argc \in 1..MaxArgc
    /\ report_file \in ReportFiles
    /\ sender_email \in Emails
    /\ file \in FileStates
    /\ existsAtCheck = "unchecked"
    /\ msg = NoMsg
    /\ msgCount = 0
    /\ reads = 0
    /\ attachFailed = FALSE
    /\ server = 0
    /\ sock = [i \in 1..2 |-> "none"]
    /\ tls = [i \in 1..2 |-> FALSE]
    /\ auth = [i \in 1..2 |-> FALSE]
    /\ connects = [i \in 1..2 |-> 0]
    /\ sent = 0
    /\ offered = <<>>
    /\ trace = <<>>
    /\ result = "none"
    /\ exitCode = -1

(* ---------------- environment ---------------- *)
(* The report file can appear, disappear or change permissions while the   *)
(* script runs.                                                            *)
FileChange ==
    /\ pc # "exited"
    /\ \E f \in FileStates \ {file} : file' = f
    /\ UNCHANGED <<pc, existsAtCheck, result, exitCode>>
    /\ UNCHANGED argVars /\ UNCHANGED msgVars /\ UNCHANGED netVars

(* ---------------- __main__ ---------------- *)
MainArgCheck ==
    /\ pc = "main"
    /\ IF argc # ExpectedArgc
         THEN pc' = "exited" /\ exitCode' = ExitFail
         ELSE pc' = "check_exists" /\ UNCHANGED exitCode
    /\ UNCHANGED <<file, existsAtCheck, result>>
    /\ UNCHANGED argVars /\ UNCHANGED msgVars /\ UNCHANGED netVars

(* faulty variant of MainCheckExists: the result of os.path.exists is ignored *)
MainCheckExistsProceed ==
    /\ pc = "check_exists"
    /\ existsAtCheck' = (IF exists(file) THEN "yes" ELSE "no")
    /\ pc' = "compose"
    /\ UNCHANGED <<file, result, exitCode>>
    /\ UNCHANGED argVars /\ UNCHANGED msgVars /\ UNCHANGED netVars

MainCheckExists ==
    /\ pc = "check_exists"
    /\ IF ~exists(file)
         THEN /\ existsAtCheck' = "no"
              /\ pc' = "exited"
              /\ exitCode' = ExitFail
         ELSE /\ existsAtCheck' = "yes"
              /\ pc' = "compose"
              /\ UNCHANGED exitCode
    /\ UNCHANGED <<file, result>>
    /\ UNCHANGED argVars /\ UNCHANGED msgVars /\ UNCHANGED netVars

(* faulty variant of MainExit: the two exit statuses are swapped *)
MainExitInverted ==
    /\ pc = "returned"
    /\ exitCode' = (IF result = "True" THEN ExitFail ELSE ExitOK)
    /\ pc' = "exited"
    /\ UNCHANGED <<file, existsAtCheck, result>>
    /\ UNCHANGED argVars /\ UNCHANGED msgVars /\ UNCHANGED netVars

MainExit ==
    /\ pc = "returned"
    /\ exitCode' = (IF result = "True" THEN ExitOK ELSE ExitFail)
    /\ pc' = "exited"
    /\ UNCHANGED <<file, existsAtCheck, result>>
    /\ UNCHANGED argVars /\ UNCHANGED msgVars /\ UNCHANGED netVars

(* ---------------- send_discovery_email: the message ---------------- *)
Compose ==
    /\ pc = "compose"
    /\ \E d1 \in Dates, d2 \in Dates :
         /\ d1 <= d2
         /\ msg' = [From    |-> <<"Voice Discovery Bot", sender_email>>,
                    To      |-> recipient,
                    Subject |-> SubjectDate(d1),
                    parts   |-> << [kind |-> "text/plain",
                                    report_file |-> basename(report_file),
                                    date |-> BodyDate(d2)] >>]
    /\ msgCount' = msgCount + 1
    /\ pc' = "attach"
    /\ UNCHANGED <<file, existsAtCheck, reads, attachFailed, result, exitCode>>
    /\ UNCHANGED argVars /\ UNCHANGED netVars

(* faulty variant of Attach: a read failure returns False instead of warning *)
AttachFatal ==
    /\ pc = "attach"
    /\ reads' = reads + 1
    /\ \E ok \in (IF file = "readable" THEN BOOLEAN ELSE {FALSE}), c \in Contents :
         IF ok
           THEN /\ msg' = [msg EXCEPT !.parts = Append(@,
                             [kind |-> "application/octet-stream",
                              filename |-> basename(report_file),
                              payload |-> <<"base64", c>>])]
                /\ attachFailed' = FALSE
                /\ pc' = "a1_connect"
                /\ UNCHANGED result
           ELSE /\ attachFailed' = TRUE
                /\ pc' = "returned"
                /\ result' = "False"
                /\ UNCHANGED msg
    /\ UNCHANGED <<file, existsAtCheck, msgCount, exitCode>>
    /\ UNCHANGED argVars /\ UNCHANGED netVars

Attach ==
    /\ pc = "attach"
    /\ reads' = reads + 1
    /\ \E ok \in (IF file = "readable" THEN BOOLEAN ELSE {FALSE}), c \in Contents :
         IF ok
           THEN /\ msg' = [msg EXCEPT !.parts = Append(@,
                             [kind |-> "application/octet-stream",
                              filename |-> basename(report_file),
                              payload |-> <<"base64", c>>])]
                /\ attachFailed' = FALSE
           ELSE /\ attachFailed' = TRUE
                /\ UNCHANGED msg
    /\ pc' = "a1_connect"
    /\ UNCHANGED <<file, existsAtCheck, msgCount, result, exitCode>>
    /\ UNCHANGED argVars /\ UNCHANGED netVars

(* ---------------- send_discovery_email: delivery ---------------- *)
(* A call that raises after the connection was made leaves the socket      *)
(* either still open (e.g. an authentication error) or already closed by   *)
(* the library (e.g. server disconnected).                                 *)
AfterRaise == {"open", "closed"}

Log(a, s, ok) == trace' = Append(trace, Event(a, s, ok))

A1Connect ==
    /\ pc = "a1_connect"
    /\ connects' = [connects EXCEPT ![1] = @ + 1]
    /\ \E ok \in BOOLEAN :
         /\ Log(1, "connect", ok)
         /\ IF ok
              THEN /\ server' = 1
                   /\ sock' = [sock EXCEPT ![1] = "open"]
                   /\ tls' = [tls EXCEPT ![1] = TRUE]
                   /\ pc' = "a1_login"
              ELSE /\ pc' = "a1_except"
                   /\ UNCHANGED <<server, sock, tls>>
    /\ UNCHANGED <<file, existsAtCheck, auth, sent, offered, result, exitCode>>
    /\ UNCHANGED argVars /\ UNCHANGED msgVars

A1Login ==
    /\ pc = "a1_login"
    /\ \E ok \in BOOLEAN :
         /\ Log(1, "login", ok)
         /\ IF ok
              THEN /\ auth' = [auth EXCEPT ![server] = TRUE]
                   /\ pc' = "a1_send"
                   /\ UNCHANGED sock
              ELSE /\ \E s \in AfterRaise : sock' = [sock EXCEPT ![server] = s]
                   /\ pc' = "a1_except"
                   /\ UNCHANGED auth
    /\ UNCHANGED <<file, existsAtCheck, server, tls, connects, sent, offered,
                   result, exitCode>>
    /\ UNCHANGED argVars /\ UNCHANGED msgVars

(* faulty variant of A1Send: sending drops the attachment from msg *)
A1SendStripped ==
    /\ pc = "a1_send"
    /\ msg' = [msg EXCEPT !.parts = <<Head(@)>>]
    /\ \E ok \in BOOLEAN :
         /\ Log(1, "send_message", ok)
         /\ offered' = Append(offered, msg)
         /\ IF ok
              THEN /\ sent' = sent + 1
                   /\ pc' = "a1_quit"
                   /\ UNCHANGED sock
              ELSE /\ \E s \in AfterRaise : sock' = [sock EXCEPT ![server] = s]
                   /\ pc' = "a1_except"
                   /\ UNCHANGED sent
    /\ UNCHANGED <<file, existsAtCheck, server, tls, auth, connects, result,
                   exitCode, msgCount, reads, attachFailed>>
    /\ UNCHANGED argVars

(* faulty variant of A1Send: returns True without calling quit *)
A1SendReturn ==
    /\ pc = "a1_send"
    /\ \E ok \in BOOLEAN :
         /\ Log(1, "send_message", ok)
         /\ offered' = Append(offered, msg)
         /\ IF ok
              THEN /\ sent' = sent + 1
                   /\ pc' = "returned"
                   /\ result' = "True"
                   /\ UNCHANGED sock
              ELSE /\ \E s \in AfterRaise : sock' = [sock EXCEPT ![server] = s]
                   /\ pc' = "a1_except"
                   /\ UNCHANGED <<sent, result>>
    /\ UNCHANGED <<file, existsAtCheck, server, tls, auth, connects, exitCode>>
    /\ UNCHANGED argVars /\ UNCHANGED msgVars

A1Send ==
    /\ pc = "a1_send"
    /\ \E ok \in BOOLEAN :
         /\ Log(1, "send_message", ok)
         /\ offered' = Append(offered, msg)
         /\ IF ok
              THEN /\ sent' = sent + 1
                   /\ pc' = "a1_quit"
                   /\ UNCHANGED sock
              ELSE /\ \E s \in AfterRaise : sock' = [sock EXCEPT ![server] = s]
                   /\ pc' = "a1_except"
                   /\ UNCHANGED sent
    /\ UNCHANGED <<file, existsAtCheck, server, tls, auth, connects, result,
                   exitCode>>
    /\ UNCHANGED argVars /\ UNCHANGED msgVars

(* server.quit(), then `return True` *)
A1Quit ==
    /\ pc = "a1_quit"
    /\ \E ok \in BOOLEAN :
         /\ Log(1, "quit", ok)
         /\ IF ok
              THEN /\ sock' = [sock EXCEPT ![server] = "closed"]
                   /\ result' = "True"
                   /\ pc' = "returned"
              ELSE /\ \E s \in AfterRaise : sock' = [sock EXCEPT ![server] = s]
                   /\ pc' = "a1_except"
                   /\ UNCHANGED result
    /\ UNCHANGED <<file, existsAtCheck, server, tls, auth, connects, sent,
                   offered, exitCode>>
    /\ UNCHANGED argVars /\ UNCHANGED msgVars

(* faulty variant of A1Except: returns False without the STARTTLS attempt *)
A1ExceptGiveUp ==
    /\ pc = "a1_except"
    /\ pc' = "returned"
    /\ result' = "False"
    /\ UNCHANGED <<file, existsAtCheck, exitCode>>
    /\ UNCHANGED argVars /\ UNCHANGED msgVars /\ UNCHANGED netVars

(* `except Exception as e:` of the outer try: report, then try STARTTLS *)
A1Except ==
    /\ pc = "a1_except"
    /\ pc' = "a2_connect"
    /\ UNCHANGED <<file, existsAtCheck, result, exitCode>>
    /\ UNCHANGED argVars /\ UNCHANGED msgVars /\ UNCHANGED netVars

(* faulty variant of A2Connect: starttls is skipped *)
A2ConnectNoUpgrade ==
    /\ pc = "a2_connect"
    /\ connects' = [connects EXCEPT ![2] = @ + 1]
    /\ \E ok \in BOOLEAN :
         /\ Log(2, "connect", ok)
         /\ IF ok
              THEN /\ server' = 2
                   /\ sock' = [sock EXCEPT ![2] = "open"]
                   /\ pc' = "a2_login"
              ELSE /\ pc' = "a2_except"
                   /\ UNCHANGED <<server, sock>>
    /\ UNCHANGED <<file, existsAtCheck, tls, auth, sent, offered, result,
                   exitCode>>
    /\ UNCHANGED argVars /\ UNCHANGED msgVars

(* smtplib.SMTP(host, 587): a plaintext connection; `server` is rebound    *)
(* only when the constructor returns.                                      *)
A2Connect ==
    /\ pc = "a2_connect"
    /\ connects' = [connects EXCEPT ![2] = @ + 1]
    /\ \E ok \in BOOLEAN :
         /\ Log(2, "connect", ok)
         /\ IF ok
              THEN /\ server' = 2
                   /\ sock' = [sock EXCEPT ![2] = "open"]
                   /\ pc' = "a2_starttls"
              ELSE /\ pc' = "a2_except"
                   /\ UNCHANGED <<server, sock>>
    /\ UNCHANGED <<file, existsAtCheck, tls, auth, sent, offered, result,
                   exitCode>>
    /\ UNCHANGED argVars /\ UNCHANGED msgVars

A2Starttls ==
    /\ pc = "a2_starttls"
    /\ \E ok \in BOOLEAN :
         /\ Log(2, "starttls", ok)
         /\ IF ok
              THEN /\ tls' = [tls EXCEPT ![server] = TRUE]
                   /\ pc' = "a2_login"
                   /\ UNCHANGED sock
              ELSE /\ \E s \in AfterRaise : sock' = [sock EXCEPT ![server] = s]
                   /\ pc' = "a2_except"
                   /\ UNCHANGED tls
    /\ UNCHANGED <<file, existsAtCheck, server, auth, connects, sent, offered,
                   result, exitCode>>
    /\ UNCHANGED argVars /\ UNCHANGED msgVars

A2Login ==
    /\ pc = "a2_login"
    /\ \E ok \in BOOLEAN :
         /\ Log(2, "login", ok)
         /\ IF ok
              THEN /\ auth' = [auth EXCEPT ![server] = TRUE]
                   /\ pc' = "a2_send"
                   /\ UNCHANGED sock
              ELSE /\ \E s \in AfterRaise : sock' = [sock EXCEPT ![server] = s]
                   /\ pc' = "a2_except"
                   /\ UNCHANGED auth
    /\ UNCHANGED <<file, existsAtCheck, server, tls, connects, sent, offered,
                   result, exitCode>>
    /\ UNCHANGED argVars /\ UNCHANGED msgVars

A2Send ==
    /\ pc = "a2_send"
    /\ \E ok \in BOOLEAN :
         /\ Log(2, "send_message", ok)
         /\ offered' = Append(offered, msg)
         /\ IF ok
              THEN /\ sent' = sent + 1
                   /\ pc' = "a2_quit"
                   /\ UNCHANGED sock
              ELSE /\ \E s \in AfterRaise : sock' = [sock EXCEPT ![server] = s]
                   /\ pc' = "a2_except"
                   /\ UNCHANGED sent
    /\ UNCHANGED <<file, existsAtCheck, server, tls, auth, connects, result,
                   exitCode>>
    /\ UNCHANGED argVars /\ UNCHANGED msgVars

(* server.quit(), then `return True` *)
A2Quit ==
    /\ pc = "a2_quit"
    /\ \E ok \in BOOLEAN :
         /\ Log(2, "quit", ok)
         /\ IF ok
              THEN /\ sock' = [sock EXCEPT ![server] = "closed"]
                   /\ result' = "True"
                   /\ pc' = "returned"
              ELSE /\ \E s \in AfterRaise : sock' = [sock EXCEPT ![server] = s]
                   /\ pc' = "a2_except"
                   /\ UNCHANGED result
    /\ UNCHANGED <<file, existsAtCheck, server, tls, auth, connects, sent,
                   offered, exitCode>>
    /\ UNCHANGED argVars /\ UNCHANGED msgVars

(* faulty variant of A2Except: reports success *)
A2ExceptTrue ==
    /\ pc = "a2_except"
    /\ result' = "True"
    /\ pc' = "returned"
    /\ UNCHANGED <<file, existsAtCheck, exitCode>>
    /\ UNCHANGED argVars /\ UNCHANGED msgVars /\ UNCHANGED netVars

(* faulty variant of A2Except: tries the STARTTLS transport once more *)
A2ExceptRetry ==
    /\ pc = "a2_except"
    /\ IF connects[2] < 2
         THEN pc' = "a2_connect" /\ UNCHANGED result
         ELSE pc' = "returned" /\ result' = "False"
    /\ UNCHANGED <<file, existsAtCheck, exitCode>>
    /\ UNCHANGED argVars /\ UNCHANGED msgVars /\ UNCHANGED netVars

(* `except Exception as e2:` of the inner try: report, `return False` *)
A2Except ==
    /\ pc = "a2_except"
    /\ result' = "False"
    /\ pc' = "returned"
    /\ UNCHANGED <<file, existsAtCheck, exitCode>>
    /\ UNCHANGED argVars /\ UNCHANGED msgVars /\ UNCHANGED netVars

(* ---------------- specification ---------------- *)
Step ==
    \/ MainArgCheck
    \/ MainCheckExists
    \/ Compose
    \/ Attach
    \/ A1Connect
    \/ A1Login
    \/ A1Send
    \/ A1Quit
    \/ A1Except
    \/ A2Connect
    \/ A2Starttls
    \/ A2Login
    \/ A2Send
    \/ A2Quit
    \/ A2Except
    \/ MainExit

Next == Step \/ FileChange

Spec == Init /\ [][Next]_vars

(* The script is one sequential thread of blocking calls; each call        *)
(* returns or raises, so the thread always takes its next step.            *)
FairSpec == Spec /\ WF_vars(Step)

TypeOK ==
    /\ pc \in {"main", "check_exists", "compose", "attach", "a1_connect",
               "a1_login", "a1_send", "a1_quit", "a1_except", "a2_connect",
               "a2_starttls", "a2_login", "a2_send", "a2_quit", "a2_except",
               "returned", "exited"}
    /\ existsAtCheck \in {"unchecked", "yes", "no"}
    /\ server \in 0..2
    /\ \A i \in 1..2 : sock[i] \in {"none", "open", "closed"}
    /\ result \in {"none", "True", "False"}
    /\ exitCode \in {-1, ExitOK, ExitFail}
    /\ tls[1] => SSLPort = 465
    /\ tls[2] => StartTLSPort = 587

(* ---------------- vocabulary of the properties ---------------- *)
Order1 == <<"connect", "login", "send_message", "quit">>
Order2 == <<"connect", "starttls", "login", "send_message", "quit">>
Order(a) == IF a = 1 THEN Order1 ELSE Order2

(* the calls of attempt a, in the order they were made *)
CallsOf(a) == SelectSeq(trace, LAMBDA e : e.att = a)

(* attempt a made call s and it completed *)
Completed(a, s) == \E k \in 1..Len(trace) : trace[k] = Event(a, s, TRUE)

(* some call of attempt a raised *)
Failed(a) == \E k \in 1..Len(trace) : trace[k].att = a /\ ~trace[k].ok

(* every call of attempt a completed, quit included *)
Succeeded(a) == \A k \in 1..Len(Order(a)) : Completed(a, Order(a)[k])

(* connection a was left open by an attempt that failed *)
Abandoned(a) == sock[a] = "open" /\ Failed(a)

Returned == result # "none"

(* C1: attempt 2 (STARTTLS, port 587) is invoked exactly once when attempt *)
(* 1 failed at any of its calls, never when attempt 1 succeeded, and never *)
(* before attempt 1 has ended in failure.                                  *)
C1_FallbackExact ==
    /\ connects[2] <= 1
    /\ (Succeeded(1) => connects[2] = 0 /\ CallsOf(2) = <<>>)
    /\ (Returned /\ Failed(1) => connects[2] = 1)
    /\ \A k \in 1..Len(trace) :
         trace[k].att = 2 =>
           /\ \E j \in 1..(k - 1) : trace[j].att = 1 /\ ~trace[j].ok
           /\ \A j \in (k + 1)..Len(trace) : trace[j].att = 2

C1_Witness ==
    /\ Returned
    /\ trace[Len(CallsOf(1))] = Event(1, "quit", FALSE)
    /\ connects[2] = 1

(* C2: when os.path.exists reports the report file missing the process     *)
(* exits with status 1 and no connection is opened on either port, in any  *)
(* state up to and including the exit.                                     *)
C2_MissingFileNoNetwork ==
    /\ existsAtCheck = "no" =>
         /\ pc = "exited"
         /\ exitCode = ExitFail
         /\ connects = [i \in 1..2 |-> 0]
         /\ trace = <<>>
         /\ \A i \in 1..2 : sock[i] = "none"
    /\ existsAtCheck = "unchecked" => connects = [i \in 1..2 |-> 0] /\ trace = <<>>

C2_Witness ==
    /\ existsAtCheck = "no"
    /\ pc = "exited"
    /\ argc = ExpectedArgc

(* C3: send_discovery_email returns True iff one of the two attempts       *)
(* completed all of its calls, and False exactly when both attempts failed.*)
C3_ResultIffAttemptSucceeded ==
    Returned =>
      /\ result = "True" <=> (Succeeded(1) \/ Succeeded(2))
      /\ result = "False" <=> (Failed(1) /\ Failed(2))

C3_Witness ==
    /\ result = "True"
    /\ Failed(1)
    /\ Succeeded(2)

(* C4: send_message completes at most once in one run. *)
C4_TransmittedAtMostOnce == sent <= 1

(* C5: the exit status is 0 iff a delivery attempt succeeded; it is 1 for  *)
(* a wrong argument count, a missing report file and two failed attempts;  *)
(* with a wrong argument count the process exits before the existence      *)
(* check and before any connection.                                        *)
C5_ExitCode ==
    /\ pc = "exited" =>
         /\ exitCode \in {ExitOK, ExitFail}
         /\ exitCode = ExitOK <=> (Succeeded(1) \/ Succeeded(2))
         /\ (argc # ExpectedArgc => exitCode = ExitFail)
         /\ (existsAtCheck = "no" => exitCode = ExitFail)
         /\ (Failed(1) /\ Failed(2) => exitCode = ExitFail)
    /\ pc # "exited" => exitCode = -1
    /\ (argc # ExpectedArgc /\ pc # "main") =>
         /\ pc = "exited"
         /\ existsAtCheck = "unchecked"
         /\ trace = <<>>
         /\ msgCount = 0

C5_Witness ==
    /\ pc = "exited"
    /\ exitCode = ExitOK
    /\ Succeeded(2)

(* C6: when the report file existed at the check but could not be read the *)
(* message carries the text body only, attempt 1 is still made (and        *)
(* attempt 2 after a failure), and the result is decided by the attempts.  *)
C6_AttachFailureNonFatal ==
    attachFailed =>
      /\ existsAtCheck = "yes"
      /\ Len(msg.parts) = 1
      /\ msg.parts[1].kind = "text/plain"
      /\ \A k \in 1..Len(offered) : Len(offered[k].parts) = 1
      /\ (Returned => connects[1] = 1)
      /\ (Returned /\ Failed(1) => connects[2] = 1)
      /\ (Returned => (result = "True" <=> (Succeeded(1) \/ Succeeded(2))))

C6_Witness ==
    /\ attachFailed
    /\ result = "True"
    /\ sent = 1
    /\ Len(offered[1].parts) = 1

(* C7: one message is constructed per call of send_discovery_email, the    *)
(* report file is opened at most once, the message does not change after   *)
(* the attachment step, and both attempts are handed the same message.     *)
C7_MessageState ==
    /\ msgCount <= 1
    /\ reads <= 1
    /\ (existsAtCheck = "yes" /\ pc # "compose" => msgCount = 1)
    /\ \A k \in 1..Len(offered) : offered[k] = msg
    /\ (Len(offered) = 2 => offered[1] = offered[2])
    /\ (msgCount = 1 => msg.To = recipient)

C7_OneImmutableMessage ==
    /\ []C7_MessageState
    /\ [][pc \notin {"compose", "attach"} => msg' = msg]_vars

C7_Witness ==
    /\ Len(offered) = 2
    /\ Len(msg.parts) = 2
    /\ Returned

(* C8: the calls of each attempt are made in the fixed order, each only    *)
(* after all earlier ones completed; login is only called on an encrypted  *)
(* connection and send_message only on an authenticated one.               *)
C8_StepOrder ==
    /\ \A a \in 1..2 :
         LET s == CallsOf(a) IN
           /\ Len(s) <= Len(Order(a))
           /\ \A k \in 1..Len(s) :
                /\ s[k].step = Order(a)[k]
                /\ (k < Len(s) => s[k].ok)
    /\ \A k \in 1..Len(trace) :
         /\ trace[k].step = "login" => tls[trace[k].att]
         /\ trace[k].step = "send_message" => auth[trace[k].att]
    /\ \A a \in 1..2 : auth[a] => tls[a]

C8_Witness ==
    /\ Completed(2, "starttls")
    /\ Completed(2, "send_message")

(* C9: the two connections are never in use together: connection 2 exists  *)
(* only after attempt 1 ended with its connection closed, never opened, or *)
(* abandoned; a True result is returned only after the quit of the         *)
(* successful attempt closed its connection.                               *)
C9_ConnectionScoped ==
    /\ ~(sock[1] = "open" /\ sock[2] = "open" /\ ~Abandoned(1))
    /\ (connects[2] > 0 =>
          /\ Failed(1)
          /\ sock[1] \in {"none", "closed"} \/ Abandoned(1))
    /\ (sock[2] # "none" => server = 2)
    /\ (sock[1] # "none" /\ connects[2] = 0 => server = 1)
    /\ (result = "True" =>
          /\ server # 0
          /\ sock[server] = "closed"
          /\ Completed(server, "quit"))

C9_Witness ==
    /\ result = "True"
    /\ server = 2
    /\ sock[1] = "open"
    /\ sock[2] = "closed"

(* C10: every run ends, with status 0 or 1, after at most one attempt on   *)
(* each transport; no call is repeated; send_discovery_email always        *)
(* returns a boolean; nothing touches the network after it returned.       *)
C10_Linear ==
    /\ connects[1] <= 1
    /\ connects[2] <= 1
    /\ \A j, k \in 1..Len(trace) :
         (trace[j].att = trace[k].att /\ trace[j].step = trace[k].step) => j = k
    /\ (pc = "returned" => result \in {"True", "False"})
    /\ (pc = "exited" => exitCode \in {ExitOK, ExitFail})
    /\ (pc = "exited" /\ existsAtCheck = "yes" => result \in {"True", "False"})

C10_Terminates ==
    /\ []C10_Linear
    /\ [][Returned \/ pc = "exited" => UNCHANGED netVars]_vars
    /\ <>(pc = "exited")

C10_Witness ==
    /\ pc = "exited"
    /\ result = "False"
    /\ connects = [i \in 1..2 |-> 1]
    /\ Len(trace) = 9

====
